---------------------------- MODULE Spec2Model ----------------------------
(***************************************************************************)
(* The transactional product-mutation protocol of routes/inventory.js:     *)
(* the four handlers Add (POST /), Update (PUT /:id), Delete (DELETE /:id) *)
(* and AdjustQuantity (POST /:id/adjust), the read Get (GET /:id), the      *)
(* audit logger logAudit, the middleware in front of the router, and the   *)
(* transactional store they talk to.                                       *)
(*                                                                         *)
(* Each request is a process that moves through the awaits of its handler. *)
(* The store (module ../db, a connection pool over the products and        *)
(* inventory_audit tables) is modelled as: a committed products table, one *)
(* pending row write and one row lock per open transaction, a unique key   *)
(* on sku, an AUTO_INCREMENT id, and an audit table.  Statements issued on *)
(* `conn` are part of the request's transaction; statements issued on the  *)
(* pool `db` (logAudit, line 10) run on another session and are committed  *)
(* on their own.                                                           *)
(***************************************************************************)
EXTENDS Integers, Sequences, FiniteSets, TLC

\* ------------------------------------------------------------------ bounds
NReq == 2          \* number of requests in one run
MaxId == 2         \* largest product id the AUTO_INCREMENT counter hands out
MaxFaults == 1     \* number of store failures injected in one run

Reqs == 1..NReq
Ids == 1..MaxId

\* ------------------------------------------------------- request bodies
Max(a, b) == IF a > b THEN a ELSE b

\* the :id of a request: the product the table starts with, and the first id
\* the counter hands out afterwards (no row until an Add commits)
Targets == {1, 2}
Skus == {"a", "b"}
Quantities == {-1, 1}
Deltas == {-2, 1}

\* req.body / req.params of the four routes.  A field the route does not
\* read keeps a fixed filler value.  hasSku/hasQty: the key is present in
\* the body (hasOwnProperty); numeric: typeof delta === 'number'.  cat / sup:
\* the category_id / supplier_id value as submitted, "absent" when the key
\* is missing; cred: what the Authorization header carries.
Body(op, id, name, sku, hasSku, quantity, hasQty, delta, numeric) ==
  [op |-> op, id |-> id, name |-> name, sku |-> sku, hasSku |-> hasSku,
   quantity |-> quantity, hasQty |-> hasQty, delta |-> delta, numeric |-> numeric,
   hasCat |-> FALSE, cat |-> "absent", hasSup |-> FALSE, sup |-> "absent",
   cred |-> "valid"]

\* POST / : a name and a sku, or one of them absent or empty
AddBodies ==
  { Body("add", 0, "w", s, TRUE, 1, TRUE, 0, FALSE) : s \in Skus }
  \cup { Body("add", 0, "w", "b", TRUE, q, TRUE, 0, FALSE) : q \in Quantities }
  \cup { Body("add", 0, "", "a", TRUE, 1, TRUE, 0, FALSE),
         Body("add", 0, "w", "", TRUE, 1, TRUE, 0, FALSE) }

\* PUT /:id : a sku (possibly empty), a quantity, or no allow-listed key
UpdateBodies ==
  { Body("update", i, "", s, TRUE, 0, FALSE, 0, FALSE) : i \in Targets, s \in Skus \cup {""} }
  \cup { Body("update", i, "", "", FALSE, q, TRUE, 0, FALSE) : i \in Targets, q \in Quantities }
  \cup { Body("update", 1, "", "", FALSE, 0, FALSE, 0, FALSE) }

\* DELETE /:id
DeleteBodies ==
  { Body("delete", i, "", "", FALSE, 0, FALSE, 0, FALSE) : i \in Targets }

\* POST /:id/adjust : a numeric delta, or a delta that is not a number
AdjustBodies ==
  { Body("adjust", i, "", "", FALSE, 0, FALSE, d, TRUE) : i \in Targets, d \in Deltas }
  \cup { Body("adjust", 1, "", "", FALSE, 0, FALSE, 0, FALSE) }

Bodies == AddBodies \cup UpdateBodies \cup DeleteBodies \cup AdjustBodies

NoBody == Body("none", 0, "", "", FALSE, 0, FALSE, 0, FALSE)

\* category_id / supplier_id values a client submits: nothing, a word, an id
\* with a row, an id without a row, digits followed by letters, a fraction
RefTokens == {"absent", "abc", "1", "7", "1abc", "1.5"}

WithRefs(b, hasCat, cat, hasSup, sup) ==
  [b EXCEPT !.hasCat = hasCat, !.cat = cat, !.hasSup = hasSup, !.sup = sup]

\* GET /:id
GetBodies ==
  { Body("get", i, "", "", FALSE, 0, FALSE, 0, FALSE) : i \in Targets }

\* reads and writes of the same few products
ReadBodies ==
  GetBodies
  \cup { Body("add", 0, "w", s, TRUE, 1, TRUE, 0, FALSE) : s \in Skus }
  \cup { Body("update", i, "", "b", TRUE, 0, FALSE, 0, FALSE) : i \in Targets }
  \cup { Body("update", i, "", "", FALSE, 1, TRUE, 0, FALSE) : i \in Targets }
  \cup { Body("delete", i, "", "", FALSE, 0, FALSE, 0, FALSE) : i \in Targets }
  \cup { Body("adjust", i, "", "", FALSE, 0, FALSE, 1, TRUE) : i \in Targets }

\* the Authorization header: none, one without a token after the scheme, a
\* token jwt.verify rejects, a token it accepts
Creds == {"none", "malformed", "invalid", "valid"}

\* one request of each mutating route under each credential
GateBodies ==
  { [b EXCEPT !.cred = c] :
      b \in { Body("add", 0, "w", "b", TRUE, 1, TRUE, 0, FALSE),
              Body("update", 1, "", "", FALSE, 1, TRUE, 0, FALSE),
              Body("delete", 1, "", "", FALSE, 0, FALSE, 0, FALSE),
              Body("adjust", 1, "", "", FALSE, 0, FALSE, 1, TRUE) },
      c \in Creds }

\* POST / with every category_id, and PUT /:id setting a reference
RefBodies ==
  { WithRefs(Body("add", 0, "w", "b", TRUE, 1, TRUE, 0, FALSE), c # "absent", c, s # "absent", s) :
      c \in RefTokens, s \in {"absent", "1", "7"} }
  \cup { WithRefs(Body("update", i, "", "", FALSE, 0, FALSE, 0, FALSE), TRUE, c, FALSE, "absent") :
            i \in Targets, c \in {"1", "7"} }
  \cup { WithRefs(Body("update", i, "", "", FALSE, 0, FALSE, 0, FALSE), FALSE, "absent", TRUE, "7") :
            i \in Targets }

\* ------------------------------------------------------------ the store
\* SQL NULL in a category_id / supplier_id column (ids start at 1)
Null == 0

Row(sku, quantity) ==
  [live |-> TRUE, sku |-> sku, quantity |-> quantity, cat |-> Null, sup |-> Null]
NoRow == [live |-> FALSE, sku |-> "", quantity |-> 0, cat |-> Null, sup |-> Null]

\* the rows of the categories and suppliers tables (no route changes them)
Categories == {1}
Suppliers == {1}

\* a transaction's uncommitted row write
NoWrite == [kind |-> "none", id |-> 0, row |-> NoRow]
WriteOf(kind, id, row) == [kind |-> kind, id |-> id, row |-> row]

VARIABLES
  products,   \* committed products table: id -> row or NoRow
  nextId,     \* AUTO_INCREMENT counter of products
  audit,      \* committed inventory_audit table: per request, the rows it inserted
  pc,         \* per request: the await it is at
  body,       \* per request: req.body and req.params
  txn,        \* per request: state of conn's transaction
  pending,    \* per request: the uncommitted row write of its transaction
  lock,       \* per request: id of the row its transaction has locked, 0 if none
  local,      \* per request: handler locals (rows read, newId, newQty)
  status,     \* per request: HTTP status sent, 0 if none yet
  conn,       \* per request: [acquired, released] counts of db.getConnection / conn.release
  faults,     \* number of store failures injected so far
  ghost,      \* per request: history of what the request's statements met
  hist        \* per product id: quantity at the last insert/update and the deltas committed since

vars == <<products, nextId, audit, pc, body, txn, pending, lock, local, status,
          conn, faults, ghost, hist>>

NoLocal == [rowQty |-> 0, rowSku |-> "", newId |-> 0, newQty |-> 0, payload |-> 0,
            error |-> ""]
NoGhost == [noRow |-> FALSE, conflict |-> FALSE, affected |-> -1, faulted |-> FALSE,
            applied |-> FALSE, readQty |-> 0]
NoHist == [base |-> 0, deltas |-> <<>>]

InitialProducts ==
  { [i \in Ids |-> IF i = 1 THEN Row("a", q) ELSE NoRow] : q \in {1} }

\* no request has arrived yet
NoRequests ==
  /\ audit = [r \in Reqs |-> <<>>]
  /\ pc = [r \in Reqs |-> "idle"]
  /\ body = [r \in Reqs |-> NoBody]
  /\ txn = [r \in Reqs |-> "none"]
  /\ pending = [r \in Reqs |-> NoWrite]
  /\ lock = [r \in Reqs |-> 0]
  /\ local = [r \in Reqs |-> NoLocal]
  /\ status = [r \in Reqs |-> 0]
  /\ conn = [r \in Reqs |-> [acquired |-> 0, released |-> 0]]
  /\ faults = 0
  /\ ghost = [r \in Reqs |-> NoGhost]
  /\ hist = [i \in Ids |-> [base |-> products[i].quantity, deltas |-> <<>>]]

Init ==
  /\ products \in InitialProducts
  /\ nextId = 2
  /\ NoRequests

\* a table from which an earlier Delete has removed product 1
DeletedProducts == { [i \in Ids |-> NoRow] }

InitDeleted ==
  /\ products \in InitialProducts \cup DeletedProducts
  /\ nextId = 2
  /\ NoRequests

\* a table in which an earlier Update has emptied the sku of product 1 and an
\* earlier Add has created product 2
EmptySkuProducts ==
  { [i \in Ids |-> IF i = 1 THEN Row("", 1) ELSE IF i = 2 THEN Row("b", 1) ELSE NoRow] }

InitEmptySku ==
  /\ products \in EmptySkuProducts
  /\ nextId = 3
  /\ NoRequests

\* ---- store semantics (module ../db and the schema are not in the sources)

\* SELECT id FROM products WHERE sku = ? : a plain read sees committed rows
SelectBySku(s) == { i \in Ids : products[i].live /\ products[i].sku = s }

\* a row lock held by another open transaction makes a locking statement wait
LockedByOther(r, id) == \E t \in Reqs \ {r} : txn[t] = "active" /\ lock[t] = id

\* the unique key on sku: an uncommitted row carrying or giving up the key
\* makes a write of that key wait for the other transaction to end
UniqueWaits(r, s) ==
  \E t \in Reqs \ {r} :
     /\ txn[t] = "active"
     /\ lock[t] # 0
     /\ \/ products[lock[t]].live /\ products[lock[t]].sku = s
        \/ pending[t].row.live /\ pending[t].row.sku = s

DupKey_Unchecked(s, id) == FALSE

\* the unique key on sku: a committed row other than `id` holds the key
DupKey(s, id) == \E i \in Ids \ {id} : products[i].live /\ products[i].sku = s

\* the table after a transaction's write is committed
ApplyWrite(tbl, w) ==
  IF w.kind = "none" THEN tbl ELSE [tbl EXCEPT ![w.id] = w.row]


\* ------------------------------------------------- handler building blocks

\* authenticate (auth.js lines 6-16): the status it answers, 0 when it calls
\* next()
Authenticate(cred) ==
  CASE cred = "none" -> 401
    [] cred = "malformed" -> 401
    [] cred = "invalid" -> 403
    [] OTHER -> 0

\* what the server puts in front of the product router (lines 29-34 of the
\* server set-up): cors, the two body parsers, then the router itself
Middleware == {"cors", "json", "urlencoded"}

\* the status the middleware in front of the router answers, 0 when the
\* request reaches the router
GateStatus(b) ==
  IF "authenticate" \in Middleware THEN Authenticate(b.cred) ELSE 0

\* line 60: if (!product_name || !sku)
AddInvalid(b) == b.name = "" \/ b.sku = ""

\* lines 130-136: no allow-listed key is present in the body
UpdateInvalid(b) == ~(b.hasSku \/ b.hasQty \/ b.hasCat \/ b.hasSup)

\* line 206: typeof delta !== 'number'
AdjustInvalid(b) == ~b.numeric

Invalid(b) ==
  \/ b.op = "add" /\ AddInvalid(b)
  \/ b.op = "update" /\ UpdateInvalid(b)
  \/ b.op = "adjust" /\ AdjustInvalid(b)

\* line 142: if (req.body.sku) -- an absent or empty sku is falsy
SkuTruthy(b) == b.hasSku /\ b.sku # ""

NotFound_Never(affectedRows) == FALSE

\* line 154: if (result.affectedRows === 0)
NotFound(affectedRows) == affectedRows = 0

Clamp_None(q) == q

\* lines 219-220: if (newQty < 0) newQty = 0
Clamp(q) == IF q < 0 THEN 0 ELSE q

AdjustSelectLocks_Plain(id) == FALSE

\* line 213: SELECT ... FOR UPDATE locks the row it reads
AdjustSelectLocks(id) == id \in Ids

\* parseInt (lines 77-78): the leading decimal digits of the value, NaN when
\* there are none
ParseInt(tok) ==
  CASE tok \in {"1", "1abc", "1.5"} -> [nan |-> FALSE, n |-> 1]
    [] tok = "7" -> [nan |-> FALSE, n |-> 7]
    [] OTHER -> [nan |-> TRUE, n |-> 0]

\* lines 81-88: SELECT id FROM <table> WHERE id = ? with the parsed value;
\* the parsed value when a row came back, null otherwise
ValidRef(tok, table) ==
  LET parsed == ParseInt(tok)
      existing == IF parsed.nan THEN {} ELSE { i \in table : i = parsed.n }
  IN IF existing # {} THEN parsed.n ELSE Null

\* the integer column value the store keeps for a bound parameter
ColumnInt(tok) ==
  CASE tok = "1" -> 1
    [] tok = "7" -> 7
    [] OTHER -> Null

\* line 99: quantity || 0
InsertQuantity(q) == IF q = 0 THEN 0 ELSE q

\* the response is sent and `finally` releases the connection
Finish(r, code) ==
  /\ pc' = [pc EXCEPT ![r] = "done"]
  /\ status' = [status EXCEPT ![r] = code]
  /\ conn' = [conn EXCEPT ![r].released = @ + 1]

\* conn.rollback(): the transaction's write and lock are dropped
Rollback(r) ==
  /\ txn' = [txn EXCEPT ![r] = "rolledback"]
  /\ pending' = [pending EXCEPT ![r] = NoWrite]
  /\ lock' = [lock EXCEPT ![r] = 0]

\* a 404 / 409 exit: conn.rollback(), the response, conn.release()
RollbackAndFinish(r, code) == Rollback(r) /\ Finish(r, code)

\* what a store call throws: a server error, which carries an sqlMessage
DupEntry == [sqlMessage |-> "Duplicate entry"]
StoreErrors == { [sqlMessage |-> "Lock wait timeout exceeded"] }

\* the error text of the 500 response: err.sqlMessage || 'Server error' in
\* Add (line 116), 'Server error' in the other routes (lines 164, 194, 229)
ErrorPayload(op, err) ==
  IF op = "add" /\ err.sqlMessage # "" THEN err.sqlMessage ELSE "Server error"

Catch_NoRollback(r, err) ==
  /\ Finish(r, 500)
  /\ local' = [local EXCEPT ![r].error = ErrorPayload(body[r].op, err)]
  /\ UNCHANGED <<txn, pending, lock>>

\* the catch block, entered when a store call throws: conn.rollback(), the
\* 500 response, conn.release() (lines 113-119, 162-168, 192-198, 227-233)
Catch(r, err) ==
  /\ Rollback(r)
  /\ Finish(r, 500)
  /\ local' = [local EXCEPT ![r].error = ErrorPayload(body[r].op, err)]

Receive_AfterConnect(r, B) ==
  /\ pc[r] = "idle"
  /\ \A t \in Reqs : t < r => pc[t] # "idle"
  /\ \E b \in B :
       /\ body' = [body EXCEPT ![r] = b]
       /\ conn' = [conn EXCEPT ![r].acquired = @ + 1]
       /\ IF GateStatus(b) # 0 \/ Invalid(b)
            THEN /\ pc' = [pc EXCEPT ![r] = "done"]
                 /\ status' = [status EXCEPT ![r] =
                       IF GateStatus(b) # 0 THEN GateStatus(b) ELSE 400]
                 /\ UNCHANGED txn
            ELSE /\ pc' = [pc EXCEPT ![r] = "check"]
                 /\ txn' = [txn EXCEPT ![r] = "active"]
                 /\ UNCHANGED status
  /\ UNCHANGED <<products, nextId, audit, pending, lock, local, faults, ghost, hist>>

\* a request arrives and passes the server's middleware; the handler
\* destructures it and validates it (lines
\* 49-61, 124-136, 173-174, 203-207); a valid request then takes a connection
\* and begins its transaction (lines 63-65, 138-140, 175-178, 209-211), which
\* touches nothing another request can see
Receive(r, B) ==
  /\ pc[r] = "idle"
  /\ \A t \in Reqs : t < r => pc[t] # "idle"
  /\ \E b \in B :
       /\ body' = [body EXCEPT ![r] = b]
       /\ IF GateStatus(b) # 0 \/ Invalid(b)
            THEN /\ pc' = [pc EXCEPT ![r] = "done"]
                 /\ status' = [status EXCEPT ![r] =
                       IF GateStatus(b) # 0 THEN GateStatus(b) ELSE 400]
                 /\ UNCHANGED <<conn, txn>>
            ELSE /\ pc' = [pc EXCEPT ![r] = "check"]
                 /\ conn' = [conn EXCEPT ![r].acquired = @ + 1]
                 /\ txn' = [txn EXCEPT ![r] = "active"]
                 /\ UNCHANGED status
  /\ UNCHANGED <<products, nextId, audit, pending, lock, local, faults, ghost, hist>>

\* a valid request arrives and conn.beginTransaction() throws: the connection
\* is held, no transaction is open, the catch block runs (lines 63-65, 113)
ReceiveBeginFail(r, B) ==
  /\ pc[r] = "idle"
  /\ \A t \in Reqs : t < r => pc[t] # "idle"
  /\ faults < MaxFaults
  /\ \E b \in B :
       /\ GateStatus(b) = 0 /\ ~Invalid(b)
       /\ body' = [body EXCEPT ![r] = b]
       /\ \E err \in StoreErrors :
            local' = [local EXCEPT ![r].error = ErrorPayload(b.op, err)]
  /\ faults' = faults + 1
  /\ conn' = [conn EXCEPT ![r] = [acquired |-> @.acquired + 1, released |-> @.released + 1]]
  /\ ghost' = [ghost EXCEPT ![r].faulted = TRUE]
  /\ Rollback(r)
  /\ pc' = [pc EXCEPT ![r] = "done"]
  /\ status' = [status EXCEPT ![r] = 500]
  /\ UNCHANGED <<products, nextId, audit, hist>>

\* the requests of a run are drawn from Bodies
Validate(r) == Receive(r, Bodies)
BeginFail(r) == ReceiveBeginFail(r, Bodies)

\* the requests of a run are drawn from ReadBodies
ValidateRead(r) == Receive(r, ReadBodies \ GetBodies)
BeginFailRead(r) == ReceiveBeginFail(r, ReadBodies \ GetBodies)

\* the requests of a run are drawn from GateBodies
ValidateGate(r) == Receive(r, GateBodies)
BeginFailGate(r) == ReceiveBeginFail(r, GateBodies)

\* the requests of a run are drawn from RefBodies
ValidateRefs(r) == Receive(r, RefBodies)
BeginFailRefs(r) == ReceiveBeginFail(r, RefBodies)

\* ------------------------------------------------------------ Add, POST /

\* lines 68-72: the duplicate-sku check
AddCheck(r) ==
  /\ pc[r] = "check" /\ body[r].op = "add"
  /\ IF SelectBySku(body[r].sku) # {}
       THEN /\ RollbackAndFinish(r, 409)
            /\ ghost' = [ghost EXCEPT ![r].conflict = TRUE]
       ELSE /\ pc' = [pc EXCEPT ![r] = "write"]
            /\ UNCHANGED <<status, conn, txn, pending, lock, ghost>>
  /\ UNCHANGED <<products, nextId, audit, body, local, faults, hist>>

\* lines 76-107: the category and supplier lookups, then INSERT INTO
\* products; a duplicate key makes execute throw
AddInsert(r) ==
  /\ pc[r] = "write" /\ body[r].op = "add"
  /\ ~UniqueWaits(r, body[r].sku)
  /\ DupKey(body[r].sku, 0) \/ nextId <= MaxId
  /\ IF DupKey(body[r].sku, 0)
       THEN /\ Catch(r, DupEntry)
            /\ ghost' = [ghost EXCEPT ![r].conflict = TRUE]
            /\ UNCHANGED nextId
       ELSE /\ pending' = [pending EXCEPT ![r] =
                 WriteOf("insert", nextId,
                         [Row(body[r].sku, InsertQuantity(body[r].quantity))
                            EXCEPT !.cat = ValidRef(body[r].cat, Categories),
                                   !.sup = ValidRef(body[r].sup, Suppliers)])]
            /\ lock' = [lock EXCEPT ![r] = nextId]
            /\ local' = [local EXCEPT ![r].newId = nextId]
            /\ nextId' = nextId + 1
            /\ pc' = [pc EXCEPT ![r] = "audit"]
            /\ UNCHANGED <<ghost, txn, status, conn>>
  /\ UNCHANGED <<products, audit, body, faults, hist>>


\* ------------------------------------------------------ Update, PUT /:id

\* lines 142-148: the sku conflict check, made only for a truthy sku
UpdateCheck(r) ==
  /\ pc[r] = "check" /\ body[r].op = "update"
  /\ IF SkuTruthy(body[r]) /\ SelectBySku(body[r].sku) \ {body[r].id} # {}
       THEN /\ RollbackAndFinish(r, 409)
            /\ ghost' = [ghost EXCEPT ![r].conflict = TRUE,
                                      ![r].noRow = ~products[body[r].id].live]
       ELSE /\ pc' = [pc EXCEPT ![r] = "write"]
            /\ ghost' = [ghost EXCEPT ![r].noRow = ~products[body[r].id].live]
            /\ UNCHANGED <<status, conn, txn, pending, lock>>
  /\ UNCHANGED <<products, nextId, audit, body, local, faults, hist>>

\* the row an UPDATE of the body's allow-listed fields leaves (lines 130-135, 151)
Patched(row, b) ==
  [row EXCEPT !.sku = IF b.hasSku THEN b.sku ELSE @,
              !.quantity = IF b.hasQty THEN b.quantity ELSE @,
              !.cat = IF b.hasCat THEN ColumnInt(b.cat) ELSE @,
              !.sup = IF b.hasSup THEN ColumnInt(b.sup) ELSE @]

\* lines 150-157: UPDATE products SET ... WHERE id = ?, then the affectedRows test
UpdateWrite(r) ==
  LET id == body[r].id
      affectedRows == IF products[id].live THEN 1 ELSE 0
  IN
  /\ pc[r] = "write" /\ body[r].op = "update"
  /\ ~LockedByOther(r, id)
  /\ affectedRows = 1 /\ body[r].hasSku => ~UniqueWaits(r, body[r].sku)
  /\ IF affectedRows = 1 /\ body[r].hasSku /\ DupKey(body[r].sku, id)
       THEN /\ Catch(r, DupEntry)
            /\ ghost' = [ghost EXCEPT ![r].conflict = TRUE, ![r].noRow = FALSE]
       ELSE IF NotFound(affectedRows)
         THEN /\ RollbackAndFinish(r, 404)
              /\ ghost' = [ghost EXCEPT ![r].noRow = TRUE, ![r].affected = affectedRows]
              /\ UNCHANGED local
         ELSE /\ pending' = [pending EXCEPT ![r] =
                   IF affectedRows = 1
                     THEN WriteOf("update", id, Patched(products[id], body[r]))
                     ELSE NoWrite]
              /\ lock' = [lock EXCEPT ![r] = IF affectedRows = 1 THEN id ELSE 0]
              /\ ghost' = [ghost EXCEPT ![r].noRow = (affectedRows = 0),
                                        ![r].affected = affectedRows]
              /\ pc' = [pc EXCEPT ![r] = "audit"]
              /\ UNCHANGED <<status, conn, txn, local>>
  /\ UNCHANGED <<products, nextId, audit, body, faults, hist>>

\* --------------------------------------------------- Delete, DELETE /:id

\* lines 180-186: a plain SELECT of the row; 404 when it is not there
DeleteCheck(r) ==
  LET id == body[r].id IN
  /\ pc[r] = "check" /\ body[r].op = "delete"
  /\ IF ~products[id].live
       THEN /\ RollbackAndFinish(r, 404)
            /\ ghost' = [ghost EXCEPT ![r].noRow = TRUE]
            /\ UNCHANGED local
       ELSE /\ local' = [local EXCEPT ![r].rowSku = products[id].sku]
            /\ pc' = [pc EXCEPT ![r] = "write"]
            /\ UNCHANGED <<status, conn, txn, pending, lock, ghost>>
  /\ UNCHANGED <<products, nextId, audit, body, faults, hist>>

\* line 187: DELETE FROM products WHERE id = ? ; its result is not looked at
DeleteWrite(r) ==
  LET id == body[r].id
      affectedRows == IF products[id].live THEN 1 ELSE 0
  IN
  /\ pc[r] = "write" /\ body[r].op = "delete"
  /\ ~LockedByOther(r, id)
  /\ pending' = [pending EXCEPT ![r] =
        IF affectedRows = 1 THEN WriteOf("delete", id, NoRow) ELSE NoWrite]
  /\ lock' = [lock EXCEPT ![r] = IF affectedRows = 1 THEN id ELSE 0]
  /\ ghost' = [ghost EXCEPT ![r].noRow = (affectedRows = 0), ![r].affected = affectedRows]
  /\ pc' = [pc EXCEPT ![r] = "audit"]
  /\ UNCHANGED <<products, nextId, audit, body, txn, local, status, conn, faults, hist>>

\* ---------------------------------------- AdjustQuantity, POST /:id/adjust

\* lines 213-217: SELECT quantity ... FOR UPDATE; 404 when no row
AdjustSelect(r) ==
  LET id == body[r].id IN
  /\ pc[r] = "check" /\ body[r].op = "adjust"
  /\ AdjustSelectLocks(id) => ~LockedByOther(r, id)
  /\ IF ~products[id].live
       THEN /\ RollbackAndFinish(r, 404)
            /\ ghost' = [ghost EXCEPT ![r].noRow = TRUE]
            /\ UNCHANGED local
       ELSE /\ lock' = [lock EXCEPT ![r] = IF AdjustSelectLocks(id) THEN id ELSE 0]
            /\ local' = [local EXCEPT ![r].rowQty = products[id].quantity]
            /\ ghost' = [ghost EXCEPT ![r].readQty = products[id].quantity]
            /\ pc' = [pc EXCEPT ![r] = "write"]
            /\ UNCHANGED <<status, conn, txn, pending>>
  /\ UNCHANGED <<products, nextId, audit, body, faults, hist>>

\* lines 219-222: newQty = rows[0].quantity + delta, clamped; UPDATE quantity
AdjustWrite(r) ==
  LET id == body[r].id
      newQty == Clamp(local[r].rowQty + body[r].delta)
      affectedRows == IF products[id].live THEN 1 ELSE 0
  IN
  /\ pc[r] = "write" /\ body[r].op = "adjust"
  /\ ~LockedByOther(r, id)
  /\ pending' = [pending EXCEPT ![r] =
        IF affectedRows = 1
          THEN WriteOf("adjust", id, [products[id] EXCEPT !.quantity = newQty])
          ELSE NoWrite]
  /\ lock' = [lock EXCEPT ![r] = IF affectedRows = 1 THEN id ELSE 0]
  /\ local' = [local EXCEPT ![r].newQty = newQty]
  /\ ghost' = [ghost EXCEPT ![r].affected = affectedRows]
  /\ pc' = [pc EXCEPT ![r] = "audit"]
  /\ UNCHANGED <<products, nextId, audit, body, txn, status, conn, faults, hist>>

\* ------------------------------------------------------- Get, GET /:id

GetStatus_Found(rows) == 200

\* lines 39-40: 404 when the SELECT returned no row
GetStatus(rows) == IF rows = {} THEN 404 ELSE 200

\* lines 36-41: SELECT * FROM products WHERE id = ? through the pool, then
\* the response; no connection is taken and no transaction is opened
Get(r) ==
  /\ pc[r] = "idle"
  /\ \A t \in Reqs : t < r => pc[t] # "idle"
  /\ \E b \in GetBodies :
       LET rows == { i \in Ids : i = b.id /\ products[i].live } IN
       /\ GateStatus(b) = 0
       /\ body' = [body EXCEPT ![r] = b]
       /\ status' = [status EXCEPT ![r] = GetStatus(rows)]
       /\ ghost' = [ghost EXCEPT ![r].noRow = (rows = {})]
  /\ pc' = [pc EXCEPT ![r] = "done"]
  /\ UNCHANGED <<products, nextId, audit, txn, pending, lock, local, conn, faults, hist>>

\* lines 41-44: the SELECT throws; the catch block answers 500 'Server error'
GetFail(r) ==
  /\ pc[r] = "idle"
  /\ \A t \in Reqs : t < r => pc[t] # "idle"
  /\ faults < MaxFaults
  /\ faults' = faults + 1
  /\ \E b \in GetBodies :
       /\ GateStatus(b) = 0
       /\ body' = [body EXCEPT ![r] = b]
  /\ status' = [status EXCEPT ![r] = 500]
  /\ local' = [local EXCEPT ![r].error = "Server error"]
  /\ ghost' = [ghost EXCEPT ![r].faulted = TRUE]
  /\ pc' = [pc EXCEPT ![r] = "done"]
  /\ UNCHANGED <<products, nextId, audit, txn, pending, lock, conn, hist>>

\* ------------------------------------------------------------- logAudit

ActionKind(op) ==
  CASE op = "add" -> "ADD"
    [] op = "update" -> "UPDATE"
    [] op = "delete" -> "DELETE"
    [] OTHER -> "QUANTITY_ADJUST"

\* the arguments of the handler's logAudit call (lines 108, 159, 188, 223)
AuditEntry(r) ==
  [product_id |-> IF body[r].op = "add" THEN local[r].newId ELSE body[r].id,
   action |-> ActionKind(body[r].op),
   delta |-> body[r].delta,
   new_quantity |-> local[r].newQty]

\* lines 7-16: INSERT INTO inventory_audit through the pool `db`, not through
\* the handler's `conn`: the row is committed when the statement returns
LogAudit(r) ==
  /\ pc[r] = "audit"
  /\ audit' = [audit EXCEPT ![r] = Append(@, AuditEntry(r))]
  /\ pc' = [pc EXCEPT ![r] = "commit"]
  /\ UNCHANGED <<products, nextId, body, txn, pending, lock, local, status, conn,
                 faults, ghost, hist>>

\* ------------------------------------------------- commit, failure, catch

\* the history of a product's quantity after a write is committed
HistAfter(h, w, b) ==
  CASE w.kind = "insert" -> [h EXCEPT ![w.id] = [base |-> w.row.quantity, deltas |-> <<>>]]
    [] w.kind = "update" /\ b.hasQty ->
         [h EXCEPT ![w.id] = [base |-> w.row.quantity, deltas |-> <<>>]]
    [] w.kind = "delete" -> [h EXCEPT ![w.id] = NoHist]
    [] w.kind = "adjust" -> [h EXCEPT ![w.id].deltas = Append(@, b.delta)]
    [] OTHER -> h

\* conn.commit(), the success response, conn.release() (lines 109-112,
\* 160-161, 190-191, 225-226)
Commit(r) ==
  /\ pc[r] = "commit"
  /\ products' = ApplyWrite(products, pending[r])
  /\ hist' = HistAfter(hist, pending[r], body[r])
  /\ ghost' = [ghost EXCEPT ![r].applied = (pending[r].kind # "none")]
  /\ txn' = [txn EXCEPT ![r] = "committed"]
  /\ pending' = [pending EXCEPT ![r] = NoWrite]
  /\ lock' = [lock EXCEPT ![r] = 0]
  /\ local' = [local EXCEPT ![r].payload =
        CASE body[r].op = "add" -> local[r].newId
          [] body[r].op = "adjust" -> local[r].newQty
          [] OTHER -> 0]
  /\ Finish(r, IF body[r].op = "add" THEN 201 ELSE 200)
  /\ UNCHANGED <<nextId, audit, body, faults>>

\* a store call inside the try block throws (a lost connection, a lock wait
\* timeout, a failed append, a failed commit) and the catch block runs; a
\* failed commit leaves the transaction uncommitted
Throw(r) ==
  /\ pc[r] \in {"write", "audit", "commit"}
  /\ faults < MaxFaults
  /\ faults' = faults + 1
  /\ ghost' = [ghost EXCEPT ![r].faulted = TRUE]
  /\ \E err \in StoreErrors : Catch(r, err)
  /\ UNCHANGED <<products, nextId, audit, body, hist>>

\* ---------------------------------------------- conn.rollback() itself fails

\* the catch block when conn.rollback() throws (lines 114, 163, 193, 228): the
\* exception leaves the handler, no response is sent, `finally` releases the
\* connection.  Either the connection is gone and the store has discarded its
\* transaction, or the transaction stays open on the released connection.
Abandon(r) ==
  /\ pc' = [pc EXCEPT ![r] = "done"]
  /\ conn' = [conn EXCEPT ![r].released = @ + 1]
  /\ \/ Rollback(r)
     \/ UNCHANGED <<txn, pending, lock>>
  /\ UNCHANGED <<status, local>>

\* a store call inside the try block throws and so does the conn.rollback()
\* of the catch block
ThrowRollbackFail(r) ==
  /\ pc[r] \in {"write", "audit", "commit"}
  /\ faults < MaxFaults
  /\ faults' = faults + 1
  /\ ghost' = [ghost EXCEPT ![r].faulted = TRUE]
  /\ Abandon(r)
  /\ UNCHANGED <<products, nextId, audit, body, hist>>

\* the request is at a statement whose result sends it to a 404 or 409 exit
\* (lines 69-72, 144-147, 154-157, 181-184, 214-217)
AtEarlyExit(r) ==
  LET b == body[r] IN
  \/ pc[r] = "check" /\ b.op = "add" /\ SelectBySku(b.sku) # {}
  \/ pc[r] = "check" /\ b.op = "update" /\ SkuTruthy(b) /\ SelectBySku(b.sku) \ {b.id} # {}
  \/ pc[r] = "write" /\ b.op = "update" /\ ~products[b.id].live
  \/ pc[r] = "check" /\ b.op = "delete" /\ ~products[b.id].live
  \/ pc[r] = "check" /\ b.op = "adjust" /\ ~products[b.id].live

\* the conn.rollback() of a 404 / 409 exit throws inside the try block: the
\* catch block runs, and its own conn.rollback() succeeds or throws too
ExitRollbackFail(r) ==
  /\ AtEarlyExit(r)
  /\ ~LockedByOther(r, body[r].id)
  /\ faults < MaxFaults
  /\ faults' = faults + 1
  /\ ghost' = [ghost EXCEPT ![r].faulted = TRUE]
  /\ \/ \E err \in StoreErrors : Catch(r, err)
     \/ Abandon(r)
  /\ UNCHANGED <<products, nextId, audit, body, hist>>

Next ==
  \E r \in Reqs :
    \/ Validate(r)
    \/ BeginFail(r)
    \/ AddCheck(r)
    \/ AddInsert(r)
    \/ UpdateCheck(r)
    \/ UpdateWrite(r)
    \/ DeleteCheck(r)
    \/ DeleteWrite(r)
    \/ AdjustSelect(r)
    \/ AdjustWrite(r)
    \/ LogAudit(r)
    \/ Commit(r)
    \/ Throw(r)

Spec == Init /\ [][Next]_vars

\* the four mutating routes with a store whose rollback can fail as well
NextFaults ==
  \/ Next
  \/ \E r \in Reqs :
       \/ ThrowRollbackFail(r)
       \/ ExitRollbackFail(r)

SpecFaults == Init /\ [][NextFaults]_vars

\* the four mutating routes and Get, over a table that may have lost product 1
NextRead ==
  \E r \in Reqs :
    \/ ValidateRead(r)
    \/ BeginFailRead(r)
    \/ Get(r)
    \/ GetFail(r)
    \/ AddCheck(r)
    \/ AddInsert(r)
    \/ UpdateCheck(r)
    \/ UpdateWrite(r)
    \/ DeleteCheck(r)
    \/ DeleteWrite(r)
    \/ AdjustSelect(r)
    \/ AdjustWrite(r)
    \/ LogAudit(r)
    \/ Commit(r)
    \/ Throw(r)

SpecRead == InitDeleted /\ [][NextRead]_vars

\* the four routes reached with and without a good credential
NextGate ==
  \E r \in Reqs :
    \/ ValidateGate(r)
    \/ BeginFailGate(r)
    \/ AddCheck(r)
    \/ AddInsert(r)
    \/ UpdateCheck(r)
    \/ UpdateWrite(r)
    \/ DeleteCheck(r)
    \/ DeleteWrite(r)
    \/ AdjustSelect(r)
    \/ AdjustWrite(r)
    \/ LogAudit(r)
    \/ Commit(r)
    \/ Throw(r)

SpecGate == Init /\ [][NextGate]_vars

\* Add and Update with category and supplier references
NextRefs ==
  \E r \in Reqs :
    \/ ValidateRefs(r)
    \/ BeginFailRefs(r)
    \/ AddCheck(r)
    \/ AddInsert(r)
    \/ UpdateCheck(r)
    \/ UpdateWrite(r)
    \/ LogAudit(r)
    \/ Commit(r)
    \/ Throw(r)

SpecRefs == Init /\ [][NextRefs]_vars

\* the same handlers over a table that holds a product with an empty sku
SpecEmptySku == InitEmptySku /\ [][Next]_vars

TypeOK ==
  /\ nextId \in 2..(MaxId + 1)
  /\ faults \in 0..MaxFaults
  /\ \A r \in Reqs : pc[r] \in {"idle", "check", "write", "audit", "commit", "done"}


\* ========================================================== the claims

\* the audit rows a request's logAudit call has appended
AuditOf(r) == { audit[r][k] : k \in 1..Len(audit[r]) }

Done(r) == pc[r] = "done"
Succeeded(r) == status[r] \in {200, 201}
Failed(r) == status[r] \in {400, 404, 409, 500}

\* the product id a request is about: the id it returned (Add) or its :id
Target(r) == IF body[r].op = "add" THEN local[r].newId ELSE body[r].id

RECURSIVE Sum(_)
Sum(ds) == IF ds = <<>> THEN 0 ELSE Head(ds) + Sum(Tail(ds))

\* the deltas applied one at a time, each result floored at zero
RECURSIVE FoldClamp(_, _)
FoldClamp(q, ds) == IF ds = <<>> THEN q ELSE FoldClamp(Max(0, q + Head(ds)), Tail(ds))

\* no adjustment before the last one was floored
RECURSIVE NoEarlyClamp(_, _)
NoEarlyClamp(q, ds) ==
  IF Len(ds) <= 1 THEN TRUE
  ELSE q + Head(ds) >= 0 /\ NoEarlyClamp(q + Head(ds), Tail(ds))

\* C1: a finished request that reports success has appended exactly one audit
\* entry, of its action kind and referencing its target id; a finished request
\* that reports a failure (400, 404, 409, 500) has appended none.
C1_AuditMatchesOutcome ==
  \A r \in Reqs :
    Done(r) =>
      /\ Succeeded(r) =>
           /\ Len(audit[r]) = 1
           /\ \A e \in AuditOf(r) :
                e.action = ActionKind(body[r].op) /\ e.product_id = Target(r)
      /\ Failed(r) => AuditOf(r) = {}

\* C2: in every state, a request's audit entry is visible to other sessions
\* exactly when its transaction (its product-row change) is committed.
C2_AuditVisibleIffRowVisible ==
  \A r \in Reqs : (AuditOf(r) # {}) <=> (txn[r] = "committed")

\* C3: every live product has quantity >= 0.
C3_QuantityNonNegative ==
  \A i \in Ids : products[i].live => products[i].quantity >= 0

\* C4: no two distinct live products have the same sku.
C4_SkuUnique ==
  \A i, j \in Ids :
    i # j /\ products[i].live /\ products[j].live => products[i].sku # products[j].sku

\* C4 witness: two products are live and a concurrent writer of a sku that
\* passed its own check was stopped by the key.
C4_Witness ==
  /\ \E i, j \in Ids : i # j /\ products[i].live /\ products[j].live
  /\ \E r \in Reqs : Done(r) /\ ghost[r].conflict /\ status[r] = 500

\* C5: an Add whose sku is held by a live product (found by its check or met
\* by its insert) ends with 409, no product row and no audit entry.
C5_DuplicateAddIs409 ==
  \A r \in Reqs :
    body[r].op = "add" /\ Done(r) /\ ghost[r].conflict =>
      status[r] = 409 /\ ~ghost[r].applied /\ AuditOf(r) = {}

\* C6 as stated: after a non-empty set of adjustments of a live product its
\* quantity is max(0, initial + sum of all deltas).
C6_FinalIsClampedSum ==
  \A i \in Ids :
    products[i].live /\ hist[i].deltas # <<>> =>
      products[i].quantity = Max(0, hist[i].base + Sum(hist[i].deltas))

\* C6 amended: after a non-empty set of committed adjustments of a live product
\* its quantity is the result of applying q -> max(0, q + delta) once per
\* adjustment in commit order, whatever the interleaving; that is
\* max(0, initial + sum of all deltas) when no adjustment before the last one
\* was floored.
C6_FinalIsClampedFold ==
  \A i \in Ids :
    products[i].live /\ hist[i].deltas # <<>> =>
      /\ products[i].quantity = FoldClamp(hist[i].base, hist[i].deltas)
      /\ NoEarlyClamp(hist[i].base, hist[i].deltas) =>
           products[i].quantity = Max(0, hist[i].base + Sum(hist[i].deltas))

\* C6 witness: two adjustments of one product are committed, the first floored.
C6_Witness ==
  \E i \in Ids :
    /\ products[i].live
    /\ Len(hist[i].deltas) = 2
    /\ ~NoEarlyClamp(hist[i].base, hist[i].deltas)
    /\ products[i].quantity # Max(0, hist[i].base + Sum(hist[i].deltas))

\* C7: the step that commits an AdjustQuantity with delta d on a product whose
\* committed quantity is q stores max(0, q + d), answers 200 with that value,
\* and the audit log holds the request's one QUANTITY_ADJUST entry with d and
\* that value.
C7_AdjustStoresClamped ==
  [][\A r \in Reqs :
       body[r].op = "adjust" /\ pc[r] = "commit" /\ pc'[r] = "done" /\ status'[r] = 200 =>
         LET id == body[r].id
             v == Max(0, products[id].quantity + body[r].delta)
         IN /\ products[id].live
            /\ products'[id].live
            /\ products'[id].quantity = v
            /\ local'[r].payload = v
            /\ Len(audit'[r]) = 1
            /\ \A e \in AuditOf(r)' :
                 /\ e.action = "QUANTITY_ADJUST"
                 /\ e.product_id = id
                 /\ e.delta = body[r].delta
                 /\ e.new_quantity = v]_vars

\* C7 witness: an adjustment whose sum went below zero has answered 200 with 0.
C7_Witness ==
  \E r \in Reqs :
    /\ body[r].op = "adjust" /\ Done(r) /\ status[r] = 200
    /\ ghost[r].readQty + body[r].delta < 0
    /\ local[r].payload = 0
    /\ products[body[r].id].live /\ products[body[r].id].quantity = 0

\* C8: a Delete that found no live row of its id (at its SELECT or when its
\* DELETE ran) and met no store failure ends with 404 and no audit entry.
C8_DeleteMissingIs404 ==
  \A r \in Reqs :
    body[r].op = "delete" /\ Done(r) /\ ghost[r].noRow /\ ~ghost[r].faulted =>
      status[r] = 404 /\ ~ghost[r].applied /\ AuditOf(r) = {}

\* C9 as stated: an Update with allow-listed fields whose id matched no live
\* row, and that met no store failure, ends with 404, no row change and no
\* audit entry.
C9_UpdateMissingIs404 ==
  \A r \in Reqs :
    body[r].op = "update" /\ Done(r) /\ ~Invalid(body[r]) /\ ghost[r].noRow
      /\ ~ghost[r].faulted =>
        status[r] = 404 /\ ~ghost[r].applied /\ AuditOf(r) = {}

\* C9 amended: an Update with allow-listed fields whose id matched no live row
\* fails and changes neither the table nor the audit log: with 404, or with
\* 409 when its fields hold a non-empty sku that a live product uses, or with
\* 500 when a store call failed.
C9_UpdateMissingFails ==
  \A r \in Reqs :
    body[r].op = "update" /\ Done(r) /\ ~Invalid(body[r]) /\ ghost[r].noRow =>
      /\ \/ status[r] = 404
         \/ status[r] = 409 /\ SkuTruthy(body[r]) /\ ghost[r].conflict
         \/ status[r] = 500 /\ ghost[r].faulted
      /\ ~ghost[r].applied
      /\ AuditOf(r) = {}

\* C9 witness: an Update of a missing id has ended 404 and another, carrying a
\* sku in use, has ended 409.
C9_Witness ==
  \E r, t \in Reqs :
    /\ body[r].op = "update" /\ Done(r) /\ ghost[r].noRow /\ status[r] = 404
    /\ body[t].op = "update" /\ Done(t) /\ ghost[t].noRow /\ status[t] = 409

\* C10: a request with an invalid body ends with 400, and a request that ended
\* with 400 has acquired no connection, begun no transaction, written no row
\* and appended no audit entry.
C10_ValidationNeverReachesStore ==
  \A r \in Reqs :
    /\ Done(r) /\ Invalid(body[r]) => status[r] = 400
    /\ status[r] = 400 =>
         /\ conn[r].acquired = 0
         /\ txn[r] = "none"
         /\ pending[r] = NoWrite /\ lock[r] = 0
         /\ ~ghost[r].applied
         /\ AuditOf(r) = {}

\* C10 witness: two requests of different routes were each rejected with 400
\* and the store is as it started.
C10_Witness ==
  \E r, t \in Reqs :
    /\ body[r].op # body[t].op
    /\ Invalid(body[r]) /\ status[r] = 400
    /\ Invalid(body[t]) /\ status[t] = 400
    /\ \A u \in Reqs : audit[u] = <<>> /\ conn[u].acquired = 0
    /\ products \in InitialProducts

\* C11: an Update whose body carries a sku -- whatever its value, the empty
\* string included -- that a different live product holds answers 409, writes
\* no row and no audit entry; and an Update answers 409 only when a different
\* product holds the sku (its own current sku is not a conflict).
C11_UpdateSkuConflictIs409 ==
  \A r \in Reqs :
    (Done(r) /\ body[r].op = "update" /\ body[r].hasSku /\ ~ghost[r].faulted) =>
      /\ ghost[r].conflict => (status[r] = 409 /\ ~ghost[r].applied /\ audit[r] = <<>>)
      /\ status[r] = 409 => ghost[r].conflict

\* C12: every live product's category reference is null or the id of an
\* existing category, and its supplier reference is null or the id of an
\* existing supplier, after any sequence of Adds and Updates.
C12_ReferencesResolve ==
  \A i \in Ids :
    products[i].live =>
      /\ products[i].cat \in Categories \cup {Null}
      /\ products[i].sup \in Suppliers \cup {Null}

\* the id a submitted reference value names: the value itself when it is an
\* integer, none otherwise
SuppliedId(tok) ==
  CASE tok = "1" -> 1
    [] tok = "7" -> 7
    [] OTHER -> Null

\* the reference the claim expects an Add to store
ExpectedRef(tok, table) ==
  IF SuppliedId(tok) \in table THEN SuppliedId(tok) ELSE Null

\* C13: an Add with a valid name and a fresh sku succeeds whatever its
\* category_id and supplier_id are (absent, non-numeric, an id without a row),
\* and the row it writes references the supplied id when that row exists and
\* null otherwise.
C13_AddResolvesReferences ==
  \A r \in Reqs :
    body[r].op = "add" =>
      /\ (Done(r) /\ ~ghost[r].faulted /\ ~ghost[r].conflict /\ ~Invalid(body[r]))
           => status[r] = 201
      /\ pending[r].kind = "insert" =>
           /\ pending[r].row.cat = ExpectedRef(body[r].cat, Categories)
           /\ pending[r].row.sup = ExpectedRef(body[r].sup, Suppliers)

\* the request's logAudit call threw: the handler got past its row statement,
\* a store failure ended it, and no audit row of its own exists
FailedAtAudit(r) ==
  /\ Done(r) /\ ghost[r].faulted /\ audit[r] = <<>>
  /\ local[r].newId # 0 \/ ghost[r].affected # -1

C15_GateBeforeCore ==
  \A r \in Reqs :
    (pc[r] # "idle" /\ body[r].cred # "valid") =>
      /\ Done(r)
      /\ status[r] = Authenticate(body[r].cred)
      /\ conn[r].acquired = 0
      /\ audit[r] = <<>> /\ ~ghost[r].applied

\* C16: a storage failure in Add, Update, Delete or AdjustQuantity is answered
\* with one generic server-side failure: the payload of a 500 response is the
\* same text whatever the store's error was, so two runs that differ only in
\* the cause of the failure answer alike.
C16_ErrorPayloadIsGeneric ==
  \A r \in Reqs :
    (Done(r) /\ status[r] = 500) => local[r].error = "Server error"

\* the id was handed out and has no row, committed or pending: its product
\* was deleted (or its insert never committed)
Gone(id) ==
  /\ id < nextId
  /\ ~products[id].live
  /\ \A t \in Reqs : ~(txn[t] = "active" /\ pending[t].kind = "insert" /\ pending[t].id = id)

\* request r reads the table for the first time in this step
Looks(r) ==
  \/ pc[r] = "idle" /\ body'[r].op = "get"
  \/ pc[r] = "check" /\ pc'[r] # "check" /\ body[r].op \in {"update", "delete", "adjust"}

\* the Update r issues its UPDATE statement in this step
Writes(r) == pc[r] = "write" /\ pc'[r] # "write" /\ body[r].op = "update"

\* what a step of a request on a gone id may do when only 404 is allowed
Answers404(r) ==
  /\ products' = products /\ audit' = audit
  /\ \/ pc'[r] = "done" /\ status'[r] = 404
     \/ pc'[r] = "done" /\ status'[r] = 500 /\ ghost'[r].faulted
     \/ body[r].op = "update" /\ pc[r] = "check" /\ pc'[r] = "write"

\* the same, with 409 allowed for an Update whose sku another product holds
Answers404Or409(r) ==
  \/ Answers404(r)
  \/ /\ products' = products /\ audit' = audit
     /\ body[r].op = "update" /\ pc'[r] = "done" /\ status'[r] = 409 /\ ghost'[r].conflict

\* C17 as stated: once the Delete of an id has committed, every later Get,
\* Update, Delete or AdjustQuantity on that id answers 404 and changes
\* nothing, and the id never becomes live again.
C17_DeletedAnswers404 ==
  [][ \A id \in Ids :
        Gone(id) =>
          /\ Gone(id)'
          /\ \A r \in Reqs :
               (body'[r].id = id /\ (Looks(r) \/ Writes(r))) => Answers404(r) ]_vars

\* C17 amended: ... every later Get, Delete or AdjustQuantity answers 404 and
\* every later Update answers 404, or 409 when its sku is held by a live
\* product (500 on a store failure); none changes anything and the id never
\* becomes live again.
C17_DeletedStaysGone ==
  [][ \A id \in Ids :
        Gone(id) =>
          /\ Gone(id)'
          /\ \A r \in Reqs :
               (body'[r].id = id /\ (Looks(r) \/ Writes(r))) => Answers404Or409(r) ]_vars

C17_Witness ==
  \E r, t \in Reqs :
    /\ t < r
    /\ Done(t) /\ body[t].op = "add" /\ status[t] = 201
    /\ Done(r) /\ body[r].op \in {"get", "update", "delete", "adjust"}
    /\ Gone(body[r].id) /\ status[r] = 404

\* the orders in which n adjustments can be applied one at a time
Orders(n) == { f \in [1..n -> 1..n] : \A j, k \in 1..n : j # k => f[j] # f[k] }

Reordered(ds, f) == [k \in 1..Len(ds) |-> ds[f[k]]]

\* the request is an AdjustQuantity between its SELECT ... FOR UPDATE and the
\* end of its transaction
AdjustInFlight(r) ==
  body[r].op = "adjust" /\ pc[r] \in {"write", "audit", "commit"} /\ txn[r] = "active"

\* C18: AdjustQuantity requests running at once on one product are serialized
\* by the row lock taken at their SELECT ... FOR UPDATE: at most one of them
\* is past its read, the row still holds the quantity that one read, and the
\* product's quantity is what applying the committed adjustments one at a time
\* in some order gives -- no adjustment is lost.
C18_AdjustsSerialized ==
  /\ \A r, t \in Reqs :
       (r # t /\ AdjustInFlight(r) /\ AdjustInFlight(t)) => body[r].id # body[t].id
  /\ \A r \in Reqs :
       AdjustInFlight(r) =>
         /\ products[body[r].id].live
         /\ products[body[r].id].quantity = ghost[r].readQty
  /\ \A i \in Ids :
       products[i].live =>
         \E f \in Orders(Len(hist[i].deltas)) :
           products[i].quantity = FoldClamp(hist[i].base, Reordered(hist[i].deltas, f))

\* C18 witness: an AdjustQuantity waits at its SELECT ... FOR UPDATE for
\* another AdjustQuantity of the same product that holds the row lock.
C18_Witness ==
  \E r, t \in Reqs :
    /\ r # t /\ body[r].op = "adjust" /\ body[t].op = "adjust"
    /\ body[r].id = body[t].id
    /\ pc[r] = "check" /\ txn[r] = "active"
    /\ AdjustInFlight(t) /\ lock[t] = body[t].id
    /\ LockedByOther(r, body[r].id)

\* C19: on every exit path of Add, Update, Delete and AdjustQuantity that took
\* a connection -- success, 404, 409, or a thrown error, a failing
\* beginTransaction, commit or rollback included -- the transaction is
\* committed or rolled back by the time the handler answers or ends, and the
\* connection has been released exactly once.
C19_SettledAndReleasedOnce ==
  \A r \in Reqs :
    /\ conn[r].released <= conn[r].acquired /\ conn[r].acquired <= 1
    /\ (conn[r].acquired = 1 /\ (Done(r) \/ status[r] # 0)) =>
         /\ txn[r] \in {"committed", "rolledback"}
         /\ conn[r].released = 1

\* the Deletes of product i that have answered, and those that answered 200
DeletesOf(i) == { r \in Reqs : body[r].op = "delete" /\ body[r].id = i /\ Done(r) }
DeleteWinners(i) == { r \in DeletesOf(i) : status[r] = 200 }

\* the DELETE audit entries of product i
DeleteEntries(i) ==
  { <<r, k>> \in Reqs \X (1..1) :
      /\ k <= Len(audit[r])
      /\ audit[r][k].action = "DELETE" /\ audit[r][k].product_id = i }

\* C20: of two Deletes of one live product running at once, exactly one
\* answers success and the other 404, and the audit log holds exactly one
\* DELETE entry for the product.
C20_OneDeleteWins ==
  \A i \in Ids :
    (Cardinality(DeletesOf(i)) = 2 /\ \A r \in DeletesOf(i) : ~ghost[r].faulted) =>
      /\ Cardinality(DeleteWinners(i)) <= 1
      /\ \A r \in DeletesOf(i) \ DeleteWinners(i) : status[r] = 404
      /\ Cardinality(DeleteEntries(i)) = Cardinality(DeleteWinners(i))

=============================================================================
